---- MODULE Spec2Model ----
(***************************************************************************)
(* Model of lib/prompts/codex.ts: getCodexInstructions, the retrieval of   *)
(* the Codex instruction document through a two-file cache (artifact +     *)
(* metadata), a release-tag lookup, a conditional (ETag) fetch, and the    *)
(* fallback to the stale cache or to the bundled document.                 *)
(*                                                                         *)
(* One invocation is a small process: its steps are the synchronous        *)
(* stretches of the async function between two awaits, the two cache       *)
(* writes being separate steps (each is a separate system call that can    *)
(* fail on its own, and Date.now() is read between them).                  *)
(***************************************************************************)
EXTENDS Integers, Sequences, FiniteSets, TLC

VARIABLES
    now,        \* Date.now(), in milliseconds
    dirExists,  \* CACHE_DIR exists
    cacheFile,  \* CACHE_FILE: Absent, Unreadable, or its text
    metaFile,   \* CACHE_METADATA_FILE: a record, see NoMetadata / MetaRecord
    bundledOk,  \* the bundled codex-instructions.md can be read
    inv,        \* inv[p]: the locals and the observable trace of invocation p
    prev        \* the last invocation that returned to its caller, and the
                \* time of the last call to the version index

vars == <<now, dirExists, cacheFile, metaFile, bundledOk, inv, prev>>

----------------------------------------------------------------------------
(* Bounds of the model *)

\* number of clock ticks a behaviour may take
MaxTicks == 3

\* callers of getCodexInstructions
Procs == {1, 2}

\* release tags the version index may answer
Tags == {"v1", "v2"}

\* bodies the resource may answer
Contents == {"X", "Y"}

\* ETag response headers the resource may answer
ETags == {"e1", "e2"}

----------------------------------------------------------------------------
(* Constants of the program *)

GITHUB_API_RELEASES == "https://api.github.com/repos/openai/codex/releases/latest"

CACHE_TTL_MS == 15 * 60 * 1000

\* the text of the bundled codex-instructions.md
BundledText == "You are Codex, based on GPT-5."

CODEX_INSTRUCTIONS_URL(latestTag) ==
    "https://raw.githubusercontent.com/openai/codex/" \o latestTag
        \o "/codex-rs/core/gpt_5_codex_prompt.md"

\* JavaScript null (a string | null local), and a number | null local: null
\* and 0 are the two falsy numbers, and the code only tests truthiness
Null == "<null>"
NullTime == 0

\* the clock advances in steps of half the TTL, so that ages of 0, TTL/2,
\* exactly TTL and more than TTL all occur
TickMs == CACHE_TTL_MS \div 2
StartTime == 2 * CACHE_TTL_MS

----------------------------------------------------------------------------
(* The file system *)

Absent == "<absent>"
Unreadable == "<unreadable>"

\* existsSync on the cache file: an unreadable file (EACCES, EISDIR) exists
ExistsSync(file) == file # Absent

\* readFileSync(file, "utf8") throws on a file that cannot be read
ReadThrows(file) == file \in {Absent, Unreadable}

\* the metadata file: absent, present with text JSON.parse rejects (or that
\* cannot be read), or the JSON of a CacheMetadata record
NoMetadata ==
    [kind |-> "absent", etag |-> Null, tag |-> Null, lastChecked |-> NullTime, url |-> Null]
CorruptMetadata ==
    [kind |-> "corrupt", etag |-> Null, tag |-> Null, lastChecked |-> NullTime, url |-> Null]

\* faulty variant of MetaRecord: the time of the check is not recorded
MetaRecord_NoTime(newETag, latestTag, t) ==
    [kind |-> "ok", etag |-> newETag, tag |-> latestTag, lastChecked |-> NullTime,
     url |-> CODEX_INSTRUCTIONS_URL(latestTag)]

\* the record written at lines 92-101
MetaRecord(newETag, latestTag, t) ==
    [kind |-> "ok", etag |-> newETag, tag |-> latestTag, lastChecked |-> t,
     url |-> CODEX_INSTRUCTIONS_URL(latestTag)]

----------------------------------------------------------------------------
(* An invocation *)

NoResult == "<none>"
Threw == "<threw>"

IdleInv ==
    [pc |-> "idle",
     cachedETag |-> Null, cachedTag |-> Null, cachedTimestamp |-> NullTime,
     latestTag |-> Null, status |-> 0, instructions |-> Null, newETag |-> Null,
     result |-> NoResult, outcome |-> "none",
     calls |-> <<>>, logs |-> <<>>, wrote |-> {}, failure |-> "none",
     startTime |-> 0, doneTime |-> 0,
     meta0 |-> NoMetadata, file0 |-> Absent]

----------------------------------------------------------------------------
(* The pieces of getCodexInstructions *)

\* lines 38-47: the cached metadata, or the exception of readFileSync /
\* JSON.parse on a metadata file that exists and cannot be read or parsed
LoadMetadata(m) ==
    IF m.kind = "corrupt"
    THEN [threw |-> TRUE, cachedETag |-> Null, cachedTag |-> Null,
          cachedTimestamp |-> NullTime]
    ELSE [threw |-> FALSE, cachedETag |-> m.etag, cachedTag |-> m.tag,
          cachedTimestamp |-> m.lastChecked]

\* faulty variant of CacheIsFresh: the age in milliseconds is compared with
\* a TTL in seconds
CacheIsFresh_SecondsTTL(cachedTimestamp, t, file) ==
    /\ cachedTimestamp # NullTime
    /\ (t - cachedTimestamp) < CACHE_TTL_MS \div 1000
    /\ ExistsSync(file)

\* faulty variant of CacheIsFresh: a cache file that exists is taken as
\* fresh, whatever the metadata
CacheIsFresh_FileOnly(cachedTimestamp, t, file) == ExistsSync(file)

\* line 51: the rate-limit test
CacheIsFresh(cachedTimestamp, t, file) ==
    /\ cachedTimestamp # NullTime
    /\ (t - cachedTimestamp) < CACHE_TTL_MS
    /\ ExistsSync(file)

\* faulty variant of ETagForRequest: the stored validator survives a change
\* of tag
ETagForRequest_Kept(cachedETag, cachedTag, latestTag) == cachedETag

\* lines 60-62: the validator is dropped when the tag changed
ETagForRequest(cachedETag, cachedTag, latestTag) ==
    IF cachedTag # latestTag THEN Null ELSE cachedETag

\* lines 65-68: the If-None-Match header of the request, Null for none
IfNoneMatch(cachedETag) ==
    IF cachedETag # Null THEN cachedETag ELSE Null

\* faulty variant of ResourceCall: the document is requested from the main
\* branch, not from the release tag
ResourceCall_MainBranch(latestTag, cachedETag) ==
    [url |-> CODEX_INSTRUCTIONS_URL("main"), ifNoneMatch |-> IfNoneMatch(cachedETag)]

\* a call to fetch
IndexCall == [url |-> GITHUB_API_RELEASES, ifNoneMatch |-> Null]
ResourceCall(latestTag, cachedETag) ==
    [url |-> CODEX_INSTRUCTIONS_URL(latestTag), ifNoneMatch |-> IfNoneMatch(cachedETag)]

\* line 81: Response.ok
ResponseOk(status) == status >= 200 /\ status <= 299

\* statuses the resource may answer
Statuses == {200, 304, 404, 500}

\* faulty variant of Fallback: the bundled document is preferred to the
\* cache file
Fallback_BundledFirst(r, file, bundled) ==
    IF bundled
    THEN [r EXCEPT !.pc = "done", !.outcome = "bundled", !.result = BundledText,
                   !.logs = r.logs \o <<"failed", "bundled">>]
    ELSE IF ReadThrows(file)
         THEN [r EXCEPT !.pc = "done", !.outcome = "threw", !.result = Threw,
                        !.logs = r.logs \o <<"failed", "cached">>]
         ELSE [r EXCEPT !.pc = "done", !.outcome = "stale", !.result = file,
                        !.logs = r.logs \o <<"failed", "cached">>]

\* faulty variant of Fallback: both tiers log the same message
Fallback_SameLog(r, file, bundled) ==
    IF ExistsSync(file)
    THEN IF ReadThrows(file)
         THEN [r EXCEPT !.pc = "done", !.outcome = "threw", !.result = Threw,
                        !.logs = r.logs \o <<"failed", "cached">>]
         ELSE [r EXCEPT !.pc = "done", !.outcome = "stale", !.result = file,
                        !.logs = r.logs \o <<"failed", "cached">>]
    ELSE IF bundled
         THEN [r EXCEPT !.pc = "done", !.outcome = "bundled", !.result = BundledText,
                        !.logs = r.logs \o <<"failed", "cached">>]
         ELSE [r EXCEPT !.pc = "done", !.outcome = "threw", !.result = Threw,
                        !.logs = r.logs \o <<"failed", "cached">>]

\* lines 107-123: the catch block, run on the cache file as it is when the
\* exception is thrown; an exception of its own readFileSync leaves the
\* function
Fallback(r, file, bundled) ==
    IF ExistsSync(file)
    THEN IF ReadThrows(file)
         THEN [r EXCEPT !.pc = "done", !.outcome = "threw", !.result = Threw,
                        !.logs = r.logs \o <<"failed", "cached">>]
         ELSE [r EXCEPT !.pc = "done", !.outcome = "stale", !.result = file,
                        !.logs = r.logs \o <<"failed", "cached">>]
    ELSE IF bundled
         THEN [r EXCEPT !.pc = "done", !.outcome = "bundled", !.result = BundledText,
                        !.logs = r.logs \o <<"failed", "bundled">>]
         ELSE [r EXCEPT !.pc = "done", !.outcome = "threw", !.result = Threw,
                        !.logs = r.logs \o <<"failed", "bundled">>]

\* an exception thrown in the try block: what failed, then the catch block
Throw(r, what, file, bundled) ==
    Fallback([r EXCEPT !.failure = what], file, bundled)

\* a return of the try block
Returned(r, text, how) ==
    [r EXCEPT !.pc = "done", !.outcome = how, !.result = text]

\* lines 51-53 and 73-76: return the cache file, or throw out of readFileSync
ServeCacheFile(r, file, bundled, how) ==
    IF ReadThrows(file)
    THEN Throw(r, "cacheread", file, bundled)
    ELSE Returned(r, file, how)

Stamp(r) == [r EXCEPT !.doneTime = now]

----------------------------------------------------------------------------
(* The steps of an invocation *)

\* lines 35-56: from the call to the await of the version index
Invoke(p) ==
    /\ inv[p].pc = "idle"
    /\ LET md == LoadMetadata(metaFile)
           r0 == [IdleInv EXCEPT !.startTime = now, !.meta0 = metaFile,
                                 !.file0 = cacheFile]
           r1 == [r0 EXCEPT !.cachedETag = md.cachedETag, !.cachedTag = md.cachedTag,
                            !.cachedTimestamp = md.cachedTimestamp]
       IN inv' = [inv EXCEPT ![p] =
              IF md.threw
              THEN Stamp(Throw(r0, "metadata", cacheFile, bundledOk))
              ELSE IF CacheIsFresh(md.cachedTimestamp, now, cacheFile)
                   THEN Stamp(ServeCacheFile(r1, cacheFile, bundledOk, "hit"))
                   ELSE [r1 EXCEPT !.pc = "tag", !.calls = <<IndexCall>>]]
    /\ UNCHANGED <<now, dirExists, cacheFile, metaFile, bundledOk, prev>>

\* one caller at a time
SeqInvoke(p) ==
    /\ \A q \in Procs : inv[q].pc = "idle"
    /\ Invoke(p)

\* lines 20-25 and 56-70: the version index answers, the resource is requested
TagResponse(p) ==
    /\ inv[p].pc = "tag"
    /\ \/ \* fetch rejects, the status is not ok, or the body is not JSON
          inv' = [inv EXCEPT ![p] = Stamp(Throw(inv[p], "index", cacheFile, bundledOk))]
       \/ \E t \in Tags :
            LET etag == ETagForRequest(inv[p].cachedETag, inv[p].cachedTag, t)
            IN inv' = [inv EXCEPT ![p] =
                   [inv[p] EXCEPT !.pc = "fetch", !.latestTag = t, !.cachedETag = etag,
                                  !.calls = Append(inv[p].calls, ResourceCall(t, etag))]]
    /\ UNCHANGED <<now, dirExists, cacheFile, metaFile, bundledOk, prev>>

\* lines 70-82 and 106: the resource answers
FetchResponse(p) ==
    /\ inv[p].pc = "fetch"
    /\ \/ \* fetch rejects
          inv' = [inv EXCEPT ![p] = Stamp(Throw(inv[p], "fetch", cacheFile, bundledOk))]
       \/ \E s \in Statuses :
            \* a server answers 304 only to a conditional request
            /\ s = 304 => inv[p].calls[Len(inv[p].calls)].ifNoneMatch # Null
            /\ LET r == [inv[p] EXCEPT !.status = s]
               IN inv' = [inv EXCEPT ![p] =
                      IF s = 304 /\ ExistsSync(cacheFile)
                      THEN Stamp(ServeCacheFile(r, cacheFile, bundledOk, "notmod"))
                      ELSE IF ResponseOk(s)
                           THEN [r EXCEPT !.pc = "body"]
                           ELSE Stamp(Throw(r, "status", cacheFile, bundledOk))]
    /\ UNCHANGED <<now, dirExists, cacheFile, metaFile, bundledOk, prev>>

\* lines 82-83: the body and the etag header of a 200 response
ReadBody(p) ==
    /\ inv[p].pc = "body"
    /\ \/ \* response.text() rejects
          inv' = [inv EXCEPT ![p] = Stamp(Throw(inv[p], "body", cacheFile, bundledOk))]
       \/ \E c \in Contents, e \in ETags \cup {Null} :
            inv' = [inv EXCEPT ![p] =
                [inv[p] EXCEPT !.pc = "save", !.instructions = c, !.newETag = e]]
    /\ UNCHANGED <<now, dirExists, cacheFile, metaFile, bundledOk, prev>>

\* faulty variant of ETagToStore: a response without an etag header leaves
\* the validator that was sent in place
ETagToStore_KeepsOld(newETag, cachedETag) ==
    IF newETag = Null THEN cachedETag ELSE newETag

\* lines 83 and 95: the validator stored is the one of the response
ETagToStore(newETag, cachedETag) == newETag

\* faulty variant of FileAfterSave: the artifact is not written
FileAfterSave_NotWritten(file, instructions, f) == file

\* faulty variant of ArtifactSaveThrows: the exception of writeFileSync is
\* swallowed
ArtifactSaveThrows_WriteSwallowed(f) == f = "mkdir"

\* what the cache directory and the cache file are after lines 86-91 under
\* fault f: "mkdir" makes mkdirSync throw, "write" makes writeFileSync throw
DirAfterSave(dir, f) == dir \/ f # "mkdir"
FileAfterSave(file, instructions, f) == IF f = "none" THEN instructions ELSE file

\* an exception of mkdirSync or writeFileSync ends the try block
ArtifactSaveThrows(f) == f # "none"

\* lines 85-91: the cache directory is made, the artifact is written
SaveArtifact(p) ==
    /\ inv[p].pc = "save"
    /\ \E f \in {"none", "mkdir", "write"} :
         /\ f = "mkdir" => ~dirExists
         /\ dirExists' = DirAfterSave(dirExists, f)
         /\ cacheFile' = FileAfterSave(cacheFile, inv[p].instructions, f)
         /\ inv' = [inv EXCEPT ![p] =
                IF ArtifactSaveThrows(f)
                THEN Stamp(Throw(inv[p], f, cacheFile', bundledOk))
                ELSE [inv[p] EXCEPT !.pc = "savemeta",
                         !.wrote = IF f = "none" THEN @ \cup {"artifact"} ELSE @]]
    /\ UNCHANGED <<now, metaFile, bundledOk, prev>>

\* lines 92-103: the metadata is written, the instructions are returned
SaveMetadata(p) ==
    /\ inv[p].pc = "savemeta"
    /\ \/ /\ metaFile' = MetaRecord(ETagToStore(inv[p].newETag, inv[p].cachedETag),
                                   inv[p].latestTag, now)
          /\ inv' = [inv EXCEPT ![p] =
                 Stamp(Returned([inv[p] EXCEPT !.wrote = @ \cup {"meta"}],
                                inv[p].instructions, "fresh"))]
       \/ \* writeFileSync throws
          /\ metaFile' = metaFile
          /\ inv' = [inv EXCEPT ![p] =
                 Stamp(Throw(inv[p], "meta", cacheFile, bundledOk))]
    /\ UNCHANGED <<now, dirExists, cacheFile, bundledOk, prev>>

\* the caller receives the text (or the rejection) of the promise
Return(p) ==
    /\ inv[p].pc = "done"
    /\ prev' = [outcome |-> inv[p].outcome, result |-> inv[p].result,
                indexAt |-> IF inv[p].calls # <<>> THEN inv[p].startTime
                            ELSE prev.indexAt]
    /\ inv' = [inv EXCEPT ![p] = IdleInv]
    /\ UNCHANGED <<now, dirExists, cacheFile, metaFile, bundledOk>>

\* time passes
Tick ==
    /\ now < StartTime + MaxTicks * TickMs
    /\ now' = now + TickMs
    /\ UNCHANGED <<dirExists, cacheFile, metaFile, bundledOk, inv, prev>>

----------------------------------------------------------------------------
(* The specification *)

\* the cache a first call may find: nothing, or what earlier runs and the
\* user left under CACHE_DIR
InitialMetadata ==
    {NoMetadata, CorruptMetadata}
        \cup {MetaRecord(e, t, StartTime - TickMs) : e \in ETags \cup {Null}, t \in Tags}

Init ==
    /\ now = StartTime
    /\ dirExists \in BOOLEAN
    /\ cacheFile \in {Absent, Unreadable} \cup Contents
    /\ metaFile \in InitialMetadata
    /\ ~dirExists => cacheFile = Absent /\ metaFile = NoMetadata
    /\ bundledOk \in BOOLEAN
    /\ inv = [p \in Procs |-> IdleInv]
    /\ prev = [outcome |-> "none", result |-> NoResult, indexAt |-> NullTime]

Next ==
    \/ \E p \in Procs : SeqInvoke(p)
    \/ \E p \in Procs : TagResponse(p)
    \/ \E p \in Procs : FetchResponse(p)
    \/ \E p \in Procs : ReadBody(p)
    \/ \E p \in Procs : SaveArtifact(p)
    \/ \E p \in Procs : SaveMetadata(p)
    \/ \E p \in Procs : Return(p)
    \/ Tick

Spec == Init /\ [][Next]_vars

\* every response arrives (or fails) and every write returns (or throws):
\* the awaited promises settle
FairSpec ==
    Spec /\ \A p \in Procs :
               /\ WF_vars(TagResponse(p)) /\ WF_vars(FetchResponse(p))
               /\ WF_vars(ReadBody(p))
               /\ WF_vars(SaveArtifact(p)) /\ WF_vars(SaveMetadata(p))

\* callers in several processes sharing CACHE_DIR, each calling once:
\* nothing orders their steps
ConcNext ==
    \/ \E p \in Procs : Invoke(p)
    \/ \E p \in Procs : TagResponse(p)
    \/ \E p \in Procs : FetchResponse(p)
    \/ \E p \in Procs : ReadBody(p)
    \/ \E p \in Procs : SaveArtifact(p)
    \/ \E p \in Procs : SaveMetadata(p)
    \/ Tick

\* they start on a first install or on one populated cache, the bundled
\* document installed
ConcInit ==
    /\ Init
    /\ bundledOk
    /\ \/ ~dirExists
       \/ /\ dirExists
          /\ cacheFile = "X"
          /\ metaFile = MetaRecord("e1", "v1", StartTime - TickMs)

ConcSpec == ConcInit /\ [][ConcNext]_vars

TypeOK ==
    /\ now \in Nat
    /\ dirExists \in BOOLEAN
    /\ bundledOk \in BOOLEAN
    /\ cacheFile \in {Absent, Unreadable} \cup Contents
    /\ metaFile.kind \in {"absent", "corrupt", "ok"}
    /\ \A p \in Procs :
         inv[p].pc \in {"idle", "tag", "fetch", "body", "save", "savemeta", "done"}

----------------------------------------------------------------------------
(* Vocabulary of the properties *)

Done(p) == inv[p].pc = "done"

\* the age of the metadata an invocation found, at its freshness test
AgeAtStart(p) == inv[p].startTime - inv[p].meta0.lastChecked

\* the invocation found a parsed metadata record younger than the TTL
FoundFreshMetadata(p) ==
    inv[p].meta0.kind = "ok" /\ AgeAtStart(p) < CACHE_TTL_MS

\* the primary path failed upstream: the version index call, the resource
\* fetch, its status or its body
UpstreamFailed(p) == inv[p].failure \in {"index", "fetch", "status", "body"}

\* the resource request of the invocation, once it is sent
ResourceRequested(p) == Len(inv[p].calls) = 2
ResourceRequest(p) == inv[p].calls[2]

----------------------------------------------------------------------------
(* Properties *)

\* C1: whatever the upstream answers and whatever local read or write
\* fails, a finished invocation has resolved to a text: no exception
\* leaves getCodexInstructions.
C1_NeverFailsOutward ==
    \A p \in Procs :
        Done(p) => inv[p].outcome # "threw" /\ inv[p].result \notin {NoResult, Threw}

\* C2: an invocation that finds a metadata record younger than the TTL and
\* a cache file holding text makes no network call and returns that text.
C2_FreshCacheNoNetwork ==
    \A p \in Procs :
        (inv[p].pc # "idle" /\ FoundFreshMetadata(p) /\ inv[p].file0 \in Contents)
            => /\ Done(p)
               /\ inv[p].calls = <<>>
               /\ inv[p].result = inv[p].file0

\* C2, its case: a cache hit on metadata of positive age below the TTL
C2_Witness ==
    \E p \in Procs :
        /\ Done(p) /\ inv[p].outcome = "hit"
        /\ AgeAtStart(p) > 0 /\ AgeAtStart(p) < CACHE_TTL_MS
        /\ inv[p].file0 \in Contents /\ inv[p].result = inv[p].file0

C4_TagChangeUnconditional ==
    \A p \in Procs :
        (ResourceRequested(p) /\ inv[p].latestTag # inv[p].meta0.tag)
            => ResourceRequest(p).ifNoneMatch = Null

\* C4, its case: a validator was stored, the tag changed, the request left
C4_Witness ==
    \E p \in Procs :
        /\ ResourceRequested(p)
        /\ inv[p].meta0.kind = "ok" /\ inv[p].meta0.etag # Null
        /\ inv[p].latestTag # inv[p].meta0.tag
        /\ ResourceRequest(p).url = CODEX_INSTRUCTIONS_URL(inv[p].latestTag)
        /\ ResourceRequest(p).ifNoneMatch = Null

\* the record the invocation must have stored after a 200 response with
\* header etag newETag for tag latestTag, written out field by field
StoredRecord(p) ==
    [kind |-> "ok", etag |-> inv[p].newETag, tag |-> inv[p].latestTag,
     lastChecked |-> inv[p].doneTime, url |-> ResourceRequest(p).url]

\* the invocation got a 200 response with its body and no local write failed
FreshStored(p) == Done(p) /\ inv[p].status = 200 /\ inv[p].failure = "none"

\* C5: an invocation answered 304 leaves the metadata file as it found it;
\* an invocation answered 200 (whose cache writes went through) leaves a
\* metadata record whose lastChecked is the time read during that
\* invocation.
C5_LastCheckedOnlyOn200 ==
    \A p \in Procs :
        /\ inv[p].status = 304 => metaFile = inv[p].meta0
        /\ FreshStored(p)
             => /\ metaFile.kind = "ok"
                /\ metaFile.lastChecked = inv[p].doneTime
                /\ inv[p].startTime <= metaFile.lastChecked

\* C5, its case: a 304 served the cache file from metadata older than the
\* TTL, and the metadata is still that old
C5_Witness ==
    \E p \in Procs :
        /\ Done(p) /\ inv[p].status = 304 /\ inv[p].outcome = "notmod"
        /\ inv[p].meta0.kind = "ok" /\ AgeAtStart(p) >= CACHE_TTL_MS
        /\ metaFile.lastChecked = inv[p].meta0.lastChecked

\* C6: after a 200 response with body c and etag header e (or none) for tag
\* v, the cache writes having gone through, the invocation returns c, the
\* cache file holds c and the metadata file holds exactly {etag: e, tag: v,
\* lastChecked: now, url: the URL requested}.
C6_FreshPersistsPair ==
    \A p \in Procs :
        FreshStored(p)
            => /\ inv[p].instructions \in Contents
               /\ inv[p].result = inv[p].instructions
               /\ cacheFile = inv[p].instructions
               /\ metaFile = StoredRecord(p)
               /\ ResourceRequest(p).url = CODEX_INSTRUCTIONS_URL(inv[p].latestTag)

\* C6, its case: a stored validator is replaced by the absence of one, and
\* the stored text by another
C6_Witness ==
    \E p \in Procs :
        /\ FreshStored(p)
        /\ inv[p].meta0.kind = "ok" /\ inv[p].meta0.etag # Null
        /\ ResourceRequest(p).ifNoneMatch = inv[p].meta0.etag
        /\ inv[p].newETag = Null /\ metaFile.etag = Null
        /\ inv[p].file0 \in Contents /\ inv[p].file0 # cacheFile

\* C7: the invocation that follows one that stored a 200 response, made
\* while the stored metadata is younger than the TTL, returns the text the
\* earlier one returned and makes no network call.
C7_RoundTrip ==
    \A p \in Procs :
        (inv[p].pc # "idle" /\ prev.outcome = "fresh" /\ FoundFreshMetadata(p))
            => /\ Done(p)
               /\ inv[p].result = prev.result
               /\ inv[p].calls = <<>>

\* C7, its case: a cache hit right after a stored 200 response, some time
\* having passed
C7_Witness ==
    \E p \in Procs :
        /\ Done(p) /\ prev.outcome = "fresh" /\ inv[p].outcome = "hit"
        /\ AgeAtStart(p) > 0
        /\ inv[p].result = prev.result

\* C8: when the resource answered 200 with body c and mkdirSync or one of
\* the two writeFileSync calls then throws, the invocation still returns c.
C8_WriteFailureKeepsResult ==
    \A p \in Procs :
        (Done(p) /\ inv[p].status = 200 /\ inv[p].failure \in {"mkdir", "write", "meta"})
            => inv[p].result = inv[p].instructions

\* C9: an invocation that finds a metadata file it cannot read or parse
\* goes on as if there were none: it calls the version index and requests
\* the resource without a validator.
C9_UnreadableMetadataIsAbsent ==
    \A p \in Procs :
        (inv[p].pc # "idle" /\ inv[p].meta0.kind = "corrupt")
            => /\ Len(inv[p].calls) >= 1
               /\ inv[p].calls[1] = IndexCall
               /\ ResourceRequested(p) => ResourceRequest(p).ifNoneMatch = Null

\* C10: an invocation that has written or changed the metadata file has
\* written the artifact first, and the cache file holds the body it
\* received.
C10_MetadataOnlyWithArtifact ==
    \A p \in Procs :
        (inv[p].pc # "idle" /\ ("meta" \in inv[p].wrote \/ metaFile # inv[p].meta0))
            => /\ "artifact" \in inv[p].wrote
               /\ cacheFile = inv[p].instructions

\* C10, its case: the metadata write threw after the artifact was written,
\* and the metadata file is untouched
C10_Witness ==
    \E p \in Procs :
        /\ Done(p) /\ inv[p].failure = "meta"
        /\ inv[p].wrote = {"artifact"}
        /\ metaFile = inv[p].meta0

\* C11: a finished invocation that wrote the artifact also wrote the
\* metadata of the same fetch: the cache file never holds the body of a
\* fetch whose metadata was not stored.
C11_ArtifactOnlyWithMetadata ==
    \A p \in Procs :
        (Done(p) /\ "artifact" \in inv[p].wrote)
            => /\ "meta" \in inv[p].wrote
               /\ metaFile = StoredRecord(p)

\* C12: an invocation that finds no metadata file calls the version index,
\* even when a cache file exists, and requests the resource without an
\* If-None-Match header.
C12_NoMetadataNeverCached ==
    \A p \in Procs :
        (inv[p].pc # "idle" /\ inv[p].meta0.kind = "absent")
            => /\ Len(inv[p].calls) >= 1
               /\ inv[p].calls[1] = IndexCall
               /\ ResourceRequested(p) => ResourceRequest(p).ifNoneMatch = Null

\* C12, its case: a cache file without metadata, and the resource was
\* requested
C12_Witness ==
    \E p \in Procs :
        /\ inv[p].meta0.kind = "absent" /\ inv[p].file0 \in Contents
        /\ ResourceRequested(p)
        /\ ResourceRequest(p).ifNoneMatch = Null

\* C13: on a populated cache whose resource answers 304, two calls to the
\* version index are at least CACHE_TTL_MS apart: the invocation after one
\* that was answered 304 calls the index only if CACHE_TTL_MS has passed
\* since that earlier call.
C13_IndexOncePerWindow ==
    \A p \in Procs :
        (inv[p].pc # "idle" /\ prev.outcome = "notmod" /\ inv[p].calls # <<>>)
            => inv[p].startTime - prev.indexAt >= CACHE_TTL_MS

\* C14: an invocation answered 304 while there is no cache file (the
\* bundled document being installed) requests the resource again, this time
\* without a validator.
C14_NotModifiedWithoutFileRefetches ==
    \A p \in Procs :
        (Done(p) /\ inv[p].status = 304 /\ inv[p].file0 = Absent /\ bundledOk)
            => /\ Len(inv[p].calls) >= 3
               /\ inv[p].calls[3].url = CODEX_INSTRUCTIONS_URL(inv[p].latestTag)
               /\ inv[p].calls[3].ifNoneMatch = Null

\* C15: the calls of an invocation are, in order, the version index and
\* then at most one resource request, sent only once the index has answered
\* a tag and to the URL of that tag; when the index call fails the
\* invocation ends in the catch block with the index call as its only call.
C15_CallsInOrder ==
    \A p \in Procs :
        /\ Len(inv[p].calls) <= 2
        /\ Len(inv[p].calls) >= 1 => inv[p].calls[1] = IndexCall
        /\ inv[p].pc = "tag" => Len(inv[p].calls) = 1
        /\ ResourceRequested(p)
             => /\ inv[p].latestTag \in Tags
                /\ ResourceRequest(p).url = CODEX_INSTRUCTIONS_URL(inv[p].latestTag)
        /\ inv[p].failure = "index"
             => /\ Done(p)
                /\ inv[p].calls = <<IndexCall>>
                /\ inv[p].latestTag = Null
                /\ inv[p].outcome \in {"stale", "bundled", "threw"}

\* C15, its case: the index answered a tag other than the cached one and
\* the resource of that tag was requested
C15_Witness ==
    \E p \in Procs :
        /\ inv[p].pc = "fetch"
        /\ inv[p].meta0.kind = "ok" /\ inv[p].latestTag # inv[p].meta0.tag
        /\ inv[p].calls = <<IndexCall, ResourceCall(inv[p].latestTag, Null)>>
        /\ ResourceRequest(p).url # inv[p].meta0.url

\* the messages an invocation logged with console.error
Logged(p) == {inv[p].logs[i] : i \in 1..Len(inv[p].logs)}

\* C16: a finished invocation has ended in one of the serving outcomes (the
\* cache hit of line 52 counted with them), and an invocation in which
\* something failed has ended serving the stale cache or the bundled
\* document.
C16_TerminalStates ==
    \A p \in Procs :
        Done(p)
            => /\ inv[p].outcome \in {"hit", "fresh", "notmod", "stale", "bundled"}
               /\ inv[p].failure # "none" => inv[p].outcome \in {"stale", "bundled"}

\* under FairSpec, an invocation that started finishes
Terminates == \A p \in Procs : (inv[p].pc # "idle") ~> Done(p)

\* C17: an invocation that serves the stale cache logs the cached message
\* and not the bundled one, one that serves the bundled document logs the
\* bundled message and not the cached one, and one that returns from the
\* try block (cache hit, 304, 200) logs nothing.
C17_DistinctFallbackLogs ==
    \A p \in Procs :
        Done(p)
            => /\ inv[p].outcome = "stale"
                    => "cached" \in Logged(p) /\ "bundled" \notin Logged(p)
               /\ inv[p].outcome = "bundled"
                    => "bundled" \in Logged(p) /\ "cached" \notin Logged(p)
               /\ inv[p].outcome \in {"hit", "notmod", "fresh"} => inv[p].logs = <<>>

\* C17, its case: the bundled document was served after a failed fetch
C17_Witness ==
    \E p \in Procs :
        /\ Done(p) /\ inv[p].outcome = "bundled" /\ UpstreamFailed(p)
        /\ inv[p].logs = <<"failed", "bundled">>

\* C19: an invocation that ends by a cache hit, a 304, the stale cache or
\* the bundled document leaves the metadata file and the cache file as it
\* found them.
C19_OnlyFreshChangesCache ==
    \A p \in Procs :
        (Done(p) /\ inv[p].outcome \in {"hit", "notmod", "stale", "bundled"})
            => /\ metaFile = inv[p].meta0
               /\ cacheFile = inv[p].file0

\* C18: once two concurrent invocations that both stored a 200 response
\* have finished, the metadata file and the cache file come from the same
\* one of the two fetches.
C18_ConcurrentPairConsistent ==
    (\A p \in Procs : Done(p) /\ inv[p].outcome = "fresh")
        => \E p \in Procs :
               /\ cacheFile = inv[p].instructions
               /\ metaFile.etag = inv[p].newETag
               /\ metaFile.tag = inv[p].latestTag

====
